---- MODULE Spec2Model ----
(***************************************************************************)
(* A model of packages/address/src.ts/index.ts: the address codec          *)
(* (getChecksumAddress, ibanChecksum, getAddress, isAddress,               *)
(* getIcapAddress), the CREATE2 deriver (getCreate2Address), the shard     *)
(* resolver (validShard, getShardFromAddress) and the address grinder      *)
(* (grindContractAddress).                                                 *)
(*                                                                         *)
(* A JavaScript string is a sequence of one-character strings.  A thrown   *)
(* error is a result record with ok = FALSE and the logger's message.      *)
(***************************************************************************)
EXTENDS Integers, Sequences, FiniteSets, TLC

VARIABLES
    pc,             \* position of the caller: "idle", "done", or a grinder position
    input,          \* the string argument of the codec operation under call
    hashed,         \* keccak256 digest used for the mixed-case checksum (32 bytes)
    result,         \* what the call returned or threw
    icap,           \* the ICAP string produced by getIcapAddress
    salt32,         \* getCreate2Address: the salt argument
    initCodeHash,   \* getCreate2Address: the initCodeHash argument
    ShardData,      \* the static shard table imported from @quais/constants
    nonce,          \* grindContractAddress: nonce argument
    matchShard,     \* grindContractAddress: matchShard argument
    sendAddress,    \* grindContractAddress: sendAddress argument
    bytecode,       \* grindContractAddress: bytecode argument
    salt,           \* grindContractAddress: local salt (one byte) or Undefined
    contractBytes,  \* grindContractAddress: local contractBytes
    found,          \* grindContractAddress: local found
    shard,          \* grindContractAddress: the shard of the last candidate
    keccakLead,     \* keccak256 of the create input, by the input's last byte
    draws,          \* number of randomBytes(1) calls made so far
    hashes,         \* number of candidates hashed so far
    iters,          \* number of loop iterations started so far
    running,        \* the job that owns the event loop's call stack
    otherDone       \* 1 once the caller's other pending task has run, else 0

vars == <<pc, input, hashed, result, icap, salt32, initCodeHash, ShardData,
          nonce, matchShard, sendAddress, bytecode, salt, contractBytes, found,
          shard, keccakLead, draws, hashes, iters, running, otherDone>>

(***************************************************************************)
(* Bounds of the model.                                                    *)
(***************************************************************************)
\* how many letter positions of an address have their case varied
MaxVaried == 3
\* longest bytecode argument, in hex characters
MaxCodeLen == 3
\* the counters of draws, hashes and iterations saturate here
MaxCount == 2

(***************************************************************************)
(* Characters and JavaScript string primitives.                            *)
(***************************************************************************)
DecDigits == <<"0","1","2","3","4","5","6","7","8","9">>
LowerAlpha == <<"a","b","c","d","e","f","g","h","i","j","k","l","m",
                "n","o","p","q","r","s","t","u","v","w","x","y","z">>
UpperAlpha == <<"A","B","C","D","E","F","G","H","I","J","K","L","M",
                "N","O","P","Q","R","S","T","U","V","W","X","Y","Z">>

Range(s) == { s[i] : i \in DOMAIN s }
DigitSet == Range(DecDigits)
LowerSet == Range(LowerAlpha)
UpperSet == Range(UpperAlpha)
LowerHexSet == {"a","b","c","d","e","f"}
UpperHexSet == {"A","B","C","D","E","F"}
HexSet == DigitSet \cup LowerHexSet \cup UpperHexSet

IndexOf(c, s) == CHOOSE i \in DOMAIN s : s[i] = c

Rep(c, n) == [i \in 1..n |-> c]

Min(a, b) == IF a < b THEN a ELSE b
Max(a, b) == IF a < b THEN b ELSE a

toUpperCaseChar(c) == IF c \in LowerSet THEN UpperAlpha[IndexOf(c, LowerAlpha)] ELSE c
toLowerCaseChar(c) == IF c \in UpperSet THEN LowerAlpha[IndexOf(c, UpperAlpha)] ELSE c
toUpperCase(s) == [i \in DOMAIN s |-> toUpperCaseChar(s[i])]
toLowerCase(s) == [i \in DOMAIN s |-> toLowerCaseChar(s[i])]

\* String.prototype.substring(start, end): arguments clamped to 0..length,
\* swapped when start > end, indices 0-based, end exclusive
Clamp(x, n) == IF x < 0 THEN 0 ELSE IF x > n THEN n ELSE x
substring(s, start, end) ==
    LET a == Clamp(start, Len(s))
        b == Clamp(end, Len(s))
    IN  SubSeq(s, Min(a, b) + 1, Max(a, b))
substringFrom(s, start) == substring(s, start, Len(s))

\* the value of a hex digit character, either case
HexVal(c) ==
    IF c \in DigitSet THEN IndexOf(c, DecDigits) - 1
    ELSE 9 + IndexOf(toLowerCaseChar(c), LowerAlpha)
\* the value of a base-36 digit character, either case
B36Val(c) ==
    IF c \in DigitSet THEN IndexOf(c, DecDigits) - 1
    ELSE 9 + IndexOf(toLowerCaseChar(c), LowerAlpha)
\* the lower-case digit character of a value 0..35
DigitChar(v) == IF v < 10 THEN DecDigits[v + 1] ELSE LowerAlpha[v - 9]

\* results: a returned value, or a thrown argument error
Ok(v) == [ok |-> TRUE, val |-> v, err |-> ""]
Throw(msg) == [ok |-> FALSE, val |-> <<>>, err |-> msg]
NoResult == [ok |-> FALSE, val |-> <<>>, err |-> "none"]

(***************************************************************************)
(* Collaborators: @quais/bytes and @quais/keccak256.                       *)
(***************************************************************************)
\* isHexString(value, length): /^0x[0-9A-Fa-f]*$/ and 2 + 2 * length characters
isHexString(value, length) ==
    /\ Len(value) >= 2
    /\ value[1] = "0"
    /\ value[2] = "x"
    /\ \A i \in 3..Len(value) : value[i] \in HexSet
    /\ Len(value) = 2 + 2 * length

\* keccak256 of the 40 ASCII characters of a lower-case address: a black box.
\* Its digest is an arbitrary value drawn when the behaviour starts.
keccak256(expanded) == hashed

(***************************************************************************)
(* getChecksumAddress                                                      *)
(***************************************************************************)
AddressBytes == 20
AddressChars == 40

\* the character at 0-based index i after the loop body of lines 32-39 ran
ChecksumCharMutant(chars, digest, i) ==
    LET byte == digest[(i \div 2) + 1]
    IN  IF i % 2 = 0
        THEN IF (byte \div 16) > 8 THEN toUpperCaseChar(chars[i + 1]) ELSE chars[i + 1]
        ELSE IF (byte % 16) > 8 THEN toUpperCaseChar(chars[i + 1]) ELSE chars[i + 1]
ChecksumChar(chars, digest, i) ==
    LET byte == digest[(i \div 2) + 1]
    IN  IF i % 2 = 0
        THEN IF (byte \div 16) >= 8 THEN toUpperCaseChar(chars[i + 1]) ELSE chars[i + 1]
        ELSE IF (byte % 16) >= 8 THEN toUpperCaseChar(chars[i + 1]) ELSE chars[i + 1]

getChecksumAddress(address) ==
    IF ~isHexString(address, AddressBytes) THEN Throw("invalid address")
    ELSE LET chars == substringFrom(toLowerCase(address), 2)
             digest == keccak256(chars)
         IN  Ok(<<"0", "x">> \o [i \in 1..AddressChars |-> ChecksumChar(chars, digest, i - 1)])

(***************************************************************************)
(* ibanChecksum                                                            *)
(***************************************************************************)
\* MAX_SAFE_INTEGER = 0x1fffffffffffff, as a decimal numeral
MAX_SAFE_INTEGER == <<"9","0","0","7","1","9","9","2","5","4","7","4","0","9","9","1">>
\* Math.floor(log10(MAX_SAFE_INTEGER)): one less than its number of digits
safeDigits == Len(MAX_SAFE_INTEGER) - 1

\* ibanLookup[c]: digits map to themselves, A..Z to 10..35; any other
\* character has no entry, and join("") drops the undefined
DecString(n) ==
    IF n < 10 THEN <<DecDigits[n + 1]>>
    ELSE <<DecDigits[(n \div 10) + 1], DecDigits[(n % 10) + 1]>>
ibanLookup(c) ==
    IF c \in DigitSet THEN <<c>>
    ELSE IF c \in UpperSet THEN DecString(9 + IndexOf(c, UpperAlpha))
    ELSE <<>>

\* address.split("").map(...).join(""), over the characters lo..hi of s
RECURSIVE ExpandRange(_, _, _)
ExpandRange(s, lo, hi) ==
    IF lo > hi THEN <<>>
    ELSE IF lo = hi THEN ibanLookup(s[lo])
    ELSE LET mid == (lo + hi) \div 2
         IN  ExpandRange(s, lo, mid) \o ExpandRange(s, mid + 1, hi)
Expand(s) == ExpandRange(s, 1, Len(s))

\* the number a numeral of up to 9 decimal digits writes
RECURSIVE NumeralValue(_)
NumeralValue(s) ==
    IF s = <<>> THEN 0
    ELSE 10 * NumeralValue(SubSeq(s, 1, Len(s) - 1)) + HexVal(s[Len(s)])

\* parseInt(block, 10) % modulus for a numeral of up to 15 decimal digits.
\* TLC's integers are 32 bits wide, so the number is held as two limbs,
\* high * 10^8 + low; the JavaScript value is exact because a 15-digit
\* numeral is below MAX_SAFE_INTEGER (see BlockIsSafe).
ParseIntMod(block, modulus) ==
    LET n == Len(block)
        cut == Max(n - 8, 0)
        high == NumeralValue(SubSeq(block, 1, cut))
        low == NumeralValue(SubSeq(block, cut + 1, n))
        shift == NumeralValue(<<"1">> \o Rep("0", n - cut))
    IN  ((high % modulus) * (shift % modulus) + (low % modulus)) % modulus

RestOfExpandedMutant(expanded, block) == substringFrom(expanded, Len(block) - 1)
RestOfExpanded(expanded, block) == substringFrom(expanded, Len(block))

\* the body of the while loop of lines 70-73
ReduceStep(expanded) ==
    LET block == substring(expanded, 0, safeDigits)
    IN  DecString(ParseIntMod(block, 97)) \o RestOfExpanded(expanded, block)

RECURSIVE ReduceExpanded(_)
ReduceExpanded(expanded) ==
    IF Len(expanded) >= safeDigits THEN ReduceExpanded(ReduceStep(expanded)) ELSE expanded

RotateIban(address) ==
    LET upper == toUpperCase(address)
    IN  substringFrom(upper, 4) \o substring(upper, 0, 2) \o <<"0", "0">>

ibanChecksum(address) ==
    LET expanded == ReduceExpanded(Expand(RotateIban(address)))
        checksum == DecString(98 - ParseIntMod(expanded, 97))
    IN  IF Len(checksum) < 2 THEN <<"0">> \o checksum ELSE checksum

(***************************************************************************)
(* Collaborator: @quais/bignumber, _base16To36 and _base36To16.  BN parses *)
(* digits of either case and prints lower-case digits without leading     *)
(* zeros ("0" for zero).  The numbers have up to 160 bits, so they are     *)
(* kept as digit sequences and converted by long division.                 *)
(***************************************************************************)
ToDigits(s) == [i \in DOMAIN s |-> B36Val(s[i])]

StripZeros(ds) ==
    IF \A i \in DOMAIN ds : ds[i] = 0 THEN <<>>
    ELSE LET first == CHOOSE i \in DOMAIN ds :
                          ds[i] # 0 /\ \A j \in 1..(i - 1) : ds[j] = 0
         IN  SubSeq(ds, first, Len(ds))

\* the digits lo..hi of ds (in base from) divided by the small number by,
\* carrying the remainder r in: <<quotient digits, remainder>>
RECURSIVE LongDiv(_, _, _, _, _, _)
LongDiv(ds, lo, hi, from, by, r) ==
    IF lo > hi THEN <<(<<>>), r>>
    ELSE IF lo = hi
    THEN LET cur == r * from + ds[lo]
         IN  <<(<<cur \div by>>), cur % by>>
    ELSE LET mid == (lo + hi) \div 2
             left == LongDiv(ds, lo, mid, from, by, r)
             right == LongDiv(ds, mid + 1, hi, from, by, left[2])
         IN  <<left[1] \o right[1], right[2]>>

\* the number v < to^4 as four digits in base to
GroupDigits(v, to) ==
    <<v \div (to * to * to), (v \div (to * to)) % to, (v \div to) % to, v % to>>

\* repeated division by to^4: each pass yields the next four digits
RECURSIVE ConvertBase(_, _, _)
ConvertBase(ds, from, to) ==
    LET n == StripZeros(ds)
    IN  IF n = <<>> THEN <<>>
        ELSE LET qr == LongDiv(n, 1, Len(n), from, to * to * to * to, 0)
             IN  ConvertBase(qr[1], from, to) \o GroupDigits(qr[2], to)

BNToString(ds, from, to) ==
    LET out == StripZeros(ConvertBase(ds, from, to))
    IN  IF out = <<>> THEN <<"0">> ELSE [i \in DOMAIN out |-> DigitChar(out[i])]

base16To36(value) == BNToString(ToDigits(value), 16, 36)
base36To16(value) == BNToString(ToDigits(value), 36, 16)

(***************************************************************************)
(* getAddress, isAddress, getIcapAddress                                   *)
(***************************************************************************)
\* /^(0x)?[0-9a-fA-F]{40}$/
MatchesHexAddress(address) ==
    \/ /\ Len(address) = AddressChars
       /\ \A i \in DOMAIN address : address[i] \in HexSet
    \/ /\ Len(address) = AddressChars + 2
       /\ address[1] = "0"
       /\ address[2] = "x"
       /\ \A i \in 3..Len(address) : address[i] \in HexSet

\* /([A-F].*[a-f])|([a-f].*[A-F])/
MatchesMixedCaseMutant(address) ==
    \E i \in DOMAIN address :
        /\ address[i] \in UpperHexSet
        /\ \E j \in (i + 1)..Len(address) : address[j] \in LowerHexSet
MatchesAnyUpperCase(address) ==
    \E i \in DOMAIN address : address[i] \in UpperHexSet
MatchesMixedCase(address) ==
    \E i \in DOMAIN address :
        \/ /\ address[i] \in UpperHexSet
           /\ \E j \in (i + 1)..Len(address) : address[j] \in LowerHexSet
        \/ /\ address[i] \in LowerHexSet
           /\ \E j \in (i + 1)..Len(address) : address[j] \in UpperHexSet

\* /^XE[0-9]{2}[0-9A-Za-z]{30,31}$/
IcapMinBody == 30
IcapMaxBody == 31
MatchesIcap(address) ==
    /\ Len(address) >= 4 + IcapMinBody
    /\ Len(address) <= 4 + IcapMaxBody
    /\ address[1] = "X"
    /\ address[2] = "E"
    /\ address[3] \in DigitSet
    /\ address[4] \in DigitSet
    /\ \A i \in 5..Len(address) : address[i] \in DigitSet \cup LowerSet \cup UpperSet

\* while (result.length < n) { result = "0" + result; }
PadZerosMutant(s, n) == IF Len(s) < n THEN Rep("0", n - Len(s) - 1) \o s ELSE s
PadZeros(s, n) == IF Len(s) < n THEN Rep("0", n - Len(s)) \o s ELSE s

getAddress(address) ==
    IF MatchesHexAddress(address)
    THEN LET prefixed == IF substring(address, 0, 2) # <<"0", "x">>
                         THEN <<"0", "x">> \o address ELSE address
             checksummed == getChecksumAddress(prefixed)
         IN  IF ~checksummed.ok THEN checksummed
             ELSE IF MatchesMixedCase(prefixed) /\ checksummed.val # prefixed
                  THEN Throw("bad address checksum")
                  ELSE checksummed
    ELSE IF MatchesIcap(address)
    THEN IF substring(address, 2, 4) # ibanChecksum(address)
         THEN Throw("bad icap checksum")
         ELSE getChecksumAddress(
                  <<"0", "x">> \o PadZeros(base36To16(substringFrom(address, 4)), AddressChars))
    ELSE Throw("invalid address")

isAddress(address) == getAddress(address).ok

IcapPayload(hex) == PadZeros(toUpperCase(base16To36(hex)), IcapMinBody)

getIcapAddress(address) ==
    LET parsed == getAddress(address)
    IN  IF ~parsed.ok THEN parsed
        ELSE LET base36 == IcapPayload(substringFrom(parsed.val, 2))
             IN  Ok(<<"X", "E">> \o ibanChecksum(<<"X", "E", "0", "0">> \o base36) \o base36)

(***************************************************************************)
(* Inputs of the codec specifications.                                     *)
(***************************************************************************)
\* 52908400098527886E0F7030069857D2E4169EE7
AllCapsAddress ==
    <<"5","2","9","0","8","4","0","0","0","9","8","5","2","7","8","8","6","E","0","F",
      "7","0","3","0","0","6","9","8","5","7","D","2","E","4","1","6","9","E","E","7">>
ZeroAddress == Rep("0", AddressChars)
MaxAddress == Rep("f", AddressChars)
\* 18 leading zero bytes
SmallAddress == Rep("0", AddressChars - 4) \o <<"d", "e", "a", "d">>
\* 36^30 lies between 0x08 00..00 and 0x09 00..00: an address with a leading
\* byte of 0x09 or more has 31 base-36 characters
HighAddress == <<"0", "9">> \o Rep("0", AddressChars - 2)
\* below 36^30: 30 base-36 characters
MidAddress == <<"0", "8">> \o Rep("0", AddressChars - 2)

BaseAddresses == {toLowerCase(AllCapsAddress), ZeroAddress, MaxAddress, SmallAddress,
                  HighAddress, MidAddress}

IsHexLetter(c) == c \in LowerHexSet \cup UpperHexSet
\* the positions of the first k hex letters of s
FirstLetters(s, k) ==
    { i \in DOMAIN s :
        /\ IsHexLetter(s[i])
        /\ Cardinality({ j \in 1..(i - 1) : IsHexLetter(s[j]) }) < k }

\* base with the letters at the positions in up in upper case, the other varied
\* letters in lower case, and the letters that are not varied all in upper
\* case (restUpper) or all in lower case
CaseVariant(base, up, restUpper) ==
    LET varied == FirstLetters(base, MaxVaried)
    IN  [i \in DOMAIN base |->
            IF i \in up \/ (restUpper /\ i \notin varied)
            THEN toUpperCaseChar(base[i]) ELSE toLowerCaseChar(base[i])]

FlipCase(s, i) ==
    [s EXCEPT ![i] = IF s[i] \in LowerSet THEN toUpperCaseChar(s[i]) ELSE toLowerCaseChar(s[i])]

\* the checksum form of a lower-case 40-digit address under a digest
ChecksumFormOf(base, digest) ==
    [i \in 1..AddressChars |-> ChecksumChar(base, digest, i - 1)]

HexInputs(digest) ==
    LET bodies ==
            UNION { { CaseVariant(b, up, ru) :
                        up \in SUBSET FirstLetters(b, MaxVaried), ru \in BOOLEAN }
                    \cup { ChecksumFormOf(b, digest) }
                    \cup { FlipCase(ChecksumFormOf(b, digest), i) :
                             i \in FirstLetters(b, MaxVaried) }
                  : b \in {toLowerCase(AllCapsAddress), ZeroAddress, MaxAddress, SmallAddress} }
    IN  bodies \cup { <<"0", "x">> \o b : b \in bodies }

\* strings that are no address: too short, a digit that is not hex, "0X"
BadInputs ==
    { Rep("0", AddressChars - 1),
      <<"0", "x">> \o Rep("0", AddressChars - 1) \o <<"g">>,
      <<"0", "X">> \o ZeroAddress,
      <<>> }

\* digests: the byte at even indices and the byte at odd indices are drawn
\* from bytes whose nibbles lie on both sides of the threshold 8
DigestBytes == {7, 8, 112, 128, 255}
DigestLen == 32
Digests ==
    { [i \in 1..DigestLen |-> IF i % 2 = 1 THEN b0 ELSE b1] : b0, b1 \in DigestBytes }

Undefined == "undefined"

\* the variables a codec call never touches
CodecFrame ==
    UNCHANGED <<input, hashed, salt32, initCodeHash, ShardData, nonce, matchShard,
                sendAddress, bytecode, salt, contractBytes, found, shard, keccakLead,
                draws, hashes, iters, running, otherDone>>

GrinderUnused ==
    /\ nonce = <<>>
    /\ matchShard = Undefined
    /\ sendAddress = <<>>
    /\ bytecode = <<>>
    /\ salt = <<>>
    /\ contractBytes = <<>>
    /\ found = FALSE
    /\ shard = Undefined
    /\ keccakLead = <<>>
    /\ draws = 0
    /\ hashes = 0
    /\ iters = 0
    /\ running = "none"
    /\ otherDone = 0

(***************************************************************************)
(* SpecAddr: one call of getAddress or isAddress on a hex-form input.      *)
(***************************************************************************)
InitAddr ==
    /\ pc = "idle"
    /\ hashed \in Digests
    /\ input \in HexInputs(hashed) \cup BadInputs
    /\ result = NoResult
    /\ icap = <<>>
    /\ salt32 = <<>>
    /\ initCodeHash = <<>>
    /\ ShardData = <<>>
    /\ GrinderUnused

GetAddressCall ==
    /\ pc = "idle"
    /\ pc' = "getAddress"
    /\ result' = getAddress(input)
    /\ icap' = icap
    /\ CodecFrame

IsAddressCall ==
    /\ pc = "idle"
    /\ pc' = "isAddress"
    /\ result' = Ok(IF isAddress(input) THEN <<"true">> ELSE <<"false">>)
    /\ icap' = icap
    /\ CodecFrame

NextAddr == GetAddressCall \/ IsAddressCall

SpecAddr == InitAddr /\ [][NextAddr]_vars

\* the 40 digits of a hex-form input, without the optional prefix
Body(address) ==
    IF Len(address) = AddressChars + 2 THEN substringFrom(address, 2) ELSE address

HasUpperHex(s) == \E i \in DOMAIN s : s[i] \in UpperHexSet
HasLowerHex(s) == \E i \in DOMAIN s : s[i] \in LowerHexSet

\* C1: for an input of 40 hex digits with an optional "0x", getAddress throws
\* "bad address checksum" exactly when the input holds an upper-case A-F and a
\* lower-case a-f and its digits differ from the checksum form; otherwise it
\* returns "0x" and the checksum form of the same digits, whatever the digest.
C1_ChecksumEnforcedOnlyOnMixedCase ==
    (pc = "getAddress" /\ MatchesHexAddress(input)) =>
        LET body == Body(input)
            form == ChecksumFormOf(toLowerCase(body), hashed)
            bad == HasUpperHex(body) /\ HasLowerHex(body) /\ body # form
        IN  /\ bad => result = Throw("bad address checksum")
            /\ ~bad => result = Ok(<<"0", "x">> \o form)

\* a mixed-case input one case flip away from its checksum form was rejected
C1_Witness_FlippedRejected ==
    /\ pc = "getAddress"
    /\ MatchesHexAddress(input)
    /\ result = Throw("bad address checksum")
    /\ \E i \in DOMAIN Body(input) :
           FlipCase(Body(input), i) = ChecksumFormOf(toLowerCase(Body(input)), hashed)

\* C2 as stated: getAddress("0x52908400098527886E0F7030069857D2E4169EE7")
\* throws "bad address checksum".
C2_AllCapsRejected ==
    (pc = "getAddress" /\ input = <<"0", "x">> \o AllCapsAddress) =>
        result = Throw("bad address checksum")

\* C2 amended: that input holds no lower-case a-f, so the checksum is not
\* enforced: getAddress returns the checksum form of its digits.
C2_AllCapsAccepted ==
    (pc = "getAddress" /\ input = <<"0", "x">> \o AllCapsAddress) =>
        /\ result.ok
        /\ toLowerCase(result.val) = toLowerCase(input)
        /\ result.val = <<"0", "x">> \o ChecksumFormOf(toLowerCase(AllCapsAddress), hashed)

\* the all-caps input was parsed under a digest that asks for lower-case letters
C2_Witness_AllCapsParsed ==
    /\ pc = "getAddress"
    /\ input = <<"0", "x">> \o AllCapsAddress
    /\ result.ok
    /\ result.val # input

(***************************************************************************)
(* SpecIcap: ibanChecksum on an ICAP string, getAddress on an ICAP string, *)
(* and getIcapAddress followed by getAddress on what it returned.          *)
(***************************************************************************)
\* ICAP payloads: those of the base addresses, and the extremes of the pattern
IcapBodies ==
    { IcapPayload(b) : b \in BaseAddresses }
    \cup { Rep("Z", IcapMaxBody), Rep("Z", IcapMinBody), Rep("0", IcapMinBody),
           Rep("9", IcapMaxBody), <<"1">> \o Rep("0", IcapMinBody) }

ChecksumDigits == { <<"0", "0">>, <<"4", "2">>, <<"9", "9">> }

IcapInputs ==
    UNION { UNION { { <<"X", "E">> \o cs \o body, <<"X", "E">> \o cs \o toLowerCase(body) }
                    : cs \in ChecksumDigits
                             \cup { ibanChecksum(<<"X", "E", "0", "0">> \o body) } }
            : body \in IcapBodies }

RoundTripInputs ==
    UNION { { b, <<"0", "x">> \o b, toUpperCase(b), <<"0", "x">> \o toUpperCase(b) }
            : b \in BaseAddresses }

IcapDigestBytes == {8, 112}
IcapDigests ==
    { [i \in 1..DigestLen |-> IF i % 2 = 1 THEN b0 ELSE b1] : b0, b1 \in IcapDigestBytes }

InitIcap ==
    /\ pc = "idle"
    /\ hashed \in IcapDigests
    /\ input \in IcapInputs \cup RoundTripInputs
    /\ result = NoResult
    /\ icap = <<>>
    /\ salt32 = <<>>
    /\ initCodeHash = <<>>
    /\ ShardData = <<>>
    /\ GrinderUnused

\* ibanChecksum is internal: it is only called on a string of the ICAP pattern
IbanChecksumCall ==
    /\ pc = "idle"
    /\ MatchesIcap(input)
    /\ pc' = "ibanChecksum"
    /\ result' = Ok(ibanChecksum(input))
    /\ icap' = icap
    /\ CodecFrame

GetIcapAddressCall ==
    /\ pc = "idle"
    /\ pc' = "getIcapAddress"
    /\ result' = getIcapAddress(input)
    /\ icap' = result'.val
    /\ CodecFrame

\* the caller hands the ICAP string it got back to getAddress
ParseIcapCall ==
    /\ pc = "getIcapAddress"
    /\ result.ok
    /\ pc' = "roundTrip"
    /\ result' = getAddress(icap)
    /\ icap' = icap
    /\ CodecFrame

NextIcap == IbanChecksumCall \/ GetIcapAddressCall \/ ParseIcapCall \/ GetAddressCall

SpecIcap == InitIcap /\ [][NextIcap]_vars

\* the decimal numeral of the reference computation: the payload, then "XE",
\* then "00", letters expanded to two digits
RefNumeral(address) ==
    LET up == toUpperCase(address)
    IN  Expand(SubSeq(up, 5, Len(up))) \o Expand(SubSeq(up, 1, 2)) \o <<"0", "0">>

\* 10^k mod 97
RECURSIVE Pow10Mod97(_)
Pow10Mod97(k) ==
    IF k = 0 THEN 1
    ELSE IF k % 2 = 0 THEN (Pow10Mod97(k \div 2) * Pow10Mod97(k \div 2)) % 97
    ELSE (10 * Pow10Mod97(k - 1)) % 97

\* N mod 97 for the number N written by the digits lo..hi of the numeral
RECURSIVE RefMod97(_, _, _)
RefMod97(numeral, lo, hi) ==
    IF lo > hi THEN 0
    ELSE IF lo = hi THEN (IndexOf(numeral[lo], DecDigits) - 1) % 97
    ELSE LET mid == (lo + hi) \div 2
         IN  (RefMod97(numeral, lo, mid) * Pow10Mod97(hi - mid)
              + RefMod97(numeral, mid + 1, hi)) % 97

RefChecksum(address) ==
    LET numeral == RefNumeral(address)
        c == 98 - RefMod97(numeral, 1, Len(numeral))
    IN  <<DecDigits[(c \div 10) + 1], DecDigits[(c % 10) + 1]>>

\* the successive values of expanded in the while loop
RECURSIVE ReduceTrace(_)
ReduceTrace(expanded) ==
    IF Len(expanded) >= safeDigits
    THEN <<expanded>> \o ReduceTrace(ReduceStep(expanded))
    ELSE <<expanded>>

\* numerals a and b of decimal digits: a <= b as numbers (no leading zeros in b)
RECURSIVE NumeralLeq(_, _)
NumeralLeq(a, b) ==
    IF Len(a) # Len(b) THEN Len(a) < Len(b)
    ELSE IF a = <<>> THEN TRUE
    ELSE IF Head(a) # Head(b) THEN HexVal(Head(a)) < HexVal(Head(b))
    ELSE NumeralLeq(Tail(a), Tail(b))

BlockIsSafe(expanded) == NumeralLeq(substring(expanded, 0, safeDigits), MAX_SAFE_INTEGER)

\* C9: the chunked reduction returns 98 - (N mod 97) of the whole numeral,
\* as two digits between "02" and "98"; every pass of the loop shortens the
\* numeral, every block it parses is a safe integer, and the two checksum
\* characters of the input do not matter.
C9_ChunkedEqualsReference ==
    pc = "ibanChecksum" =>
        LET trace == ReduceTrace(Expand(RotateIban(input)))
            value == 10 * HexVal(result.val[1]) + HexVal(result.val[2])
        IN  /\ result.val = RefChecksum(input)
            /\ Len(result.val) = 2
            /\ value >= 2 /\ value <= 98
            /\ \A k \in 1..(Len(trace) - 1) :
                   /\ Len(trace[k + 1]) < Len(trace[k])
                   /\ BlockIsSafe(trace[k])
            /\ Len(trace[Len(trace)]) < safeDigits
            /\ \A cs \in ChecksumDigits :
                   ibanChecksum(<<"X", "E">> \o cs \o substringFrom(input, 4)) = result.val

\* a 31-letter payload: 68 decimal digits, reduced in five passes
C9_Witness_LongNumeral ==
    /\ pc = "ibanChecksum"
    /\ Len(RefNumeral(input)) = 2 * IcapMaxBody + 6
    /\ Len(ReduceTrace(Expand(RotateIban(input)))) >= 5
    /\ result.val = RefChecksum(input)

\* C7: for every address a that getAddress accepts, getAddress accepts
\* getIcapAddress(a) and returns getAddress(a); the checksum getIcapAddress
\* inserted is the one getAddress recomputes, and the payload padded to 30
\* characters converts back to the 40 hex digits of a.
C7_IcapRoundTrip ==
    pc = "roundTrip" =>
        LET digits == IF MatchesHexAddress(input) THEN toLowerCase(Body(input))
                      ELSE substringFrom(toLowerCase(getAddress(input).val), 2)
        IN  /\ result.ok
            /\ result.val = <<"0", "x">> \o ChecksumFormOf(digits, hashed)
            /\ result = getAddress(input)
            /\ MatchesIcap(icap)
            /\ substring(icap, 2, 4) = RefChecksum(icap)
            /\ PadZeros(base36To16(substringFrom(icap, 4)), AddressChars) = digits

\* round trips of an address with a 31-character payload and of one with
\* leading zero bytes whose payload was padded
C7_Witness_LongPayload ==
    /\ pc = "roundTrip"
    /\ result.ok
    /\ Len(icap) = 4 + IcapMaxBody
    /\ toLowerCase(Body(input)) = MaxAddress

(***************************************************************************)
(* Collaborators of the derivation path: @quais/bytes (hexDataLength,      *)
(* hexDataSlice, arrayify) and keccak256 of a derivation preimage.         *)
(***************************************************************************)
\* JavaScript's null and NaN
Null == "null"
NaN == -1

\* hexDataLength(data) of a string: null unless it is "0x" and an even
\* number of hex digits, else the number of bytes
hexDataLength(data) ==
    IF /\ Len(data) >= 2
       /\ data[1] = "0"
       /\ data[2] = "x"
       /\ \A i \in 3..Len(data) : data[i] \in HexSet
       /\ Len(data) % 2 = 0
    THEN (Len(data) - 2) \div 2
    ELSE NaN

\* arrayify accepts a string only if it is "0x" and an even number of hex digits
IsArrayifiable(data) == hexDataLength(data) # NaN

\* arrayify of an array: every element is an integer from 0 to 255
IsBytes(bytes) == \A i \in DOMAIN bytes : bytes[i] \in 0..255

\* the bytes of "0x" and an even number of hex digits
HexToBytes(data) ==
    [k \in 1..((Len(data) - 2) \div 2) |->
        16 * HexVal(data[2 * k + 1]) + HexVal(data[2 * k + 2])]

\* keccak256 of a derivation preimage: a black box.  Within one behaviour the
\* preimages differ only in their last byte, and of the digest only the first
\* of its low 20 bytes decides the shard: keccakLead gives that byte for each
\* last byte of the preimage, the other bytes of the digest are 0.
keccak256Bytes(bytes) ==
    [i \in 1..DigestLen |->
        IF i = DigestLen - AddressBytes + 1 THEN keccakLead[bytes[Len(bytes)]] ELSE 0]

\* hexDataSlice(digest, offset): "0x" and the hex digits of the bytes from offset on
hexDataSlice(digest, offset) ==
    <<"0", "x">> \o
    [i \in 1..(2 * (Len(digest) - offset)) |->
        LET b == digest[offset + ((i + 1) \div 2)]
        IN  IF i % 2 = 1 THEN DigitChar(b \div 16) ELSE DigitChar(b % 16)]

(***************************************************************************)
(* getCreate2Address                                                       *)
(***************************************************************************)
Create2Bytes == 32
SliceOffset == 12

SaltIsValidMutant(s) == hexDataLength(s) >= Create2Bytes
SaltIsValid(s) == hexDataLength(s) = Create2Bytes

getCreate2Address(from, s, ich) ==
    IF ~SaltIsValid(s) THEN Throw("salt must be 32 bytes")
    ELSE IF hexDataLength(ich) # Create2Bytes THEN Throw("initCodeHash must be 32 bytes")
    ELSE LET parsed == getAddress(from)
         IN  IF ~parsed.ok THEN parsed
             ELSE getAddress(hexDataSlice(
                      keccak256Bytes(<<255>> \o HexToBytes(parsed.val)
                                      \o HexToBytes(s) \o HexToBytes(ich)),
                      SliceOffset))

(***************************************************************************)
(* validShard, getShardFromAddress                                         *)
(***************************************************************************)
\* Number(s) for the strings the model passes: "" is 0, "0x" and hex digits
\* is their hexadecimal value, decimal digits are their decimal value, any
\* other string of hex digits and "x" is NaN.  (Strings with an exponent or a
\* binary prefix, such as "1e10" or "0b10", are not among the inputs.)
RECURSIVE HexValue(_)
HexValue(s) ==
    IF s = <<>> THEN 0 ELSE 16 * HexValue(SubSeq(s, 1, Len(s) - 1)) + HexVal(s[Len(s)])

Number(s) ==
    IF s = <<>> THEN 0
    ELSE IF Len(s) > 2 /\ s[1] = "0" /\ s[2] \in {"x", "X"}
              /\ \A i \in 3..Len(s) : s[i] \in HexSet
    THEN HexValue(SubSeq(s, 3, Len(s)))
    ELSE IF \A i \in DOMAIN s : s[i] \in DigitSet
    THEN NumeralValue(s)
    ELSE NaN

\* >= and <= of JavaScript numbers: false when either side is NaN
Geq(a, b) == a # NaN /\ b # NaN /\ a >= b
Leq(a, b) == a # NaN /\ b # NaN /\ a <= b

validShard(name) == \E k \in DOMAIN ShardData : ShardData[k].shard = name

ShardKeyMutant(address) == Number(substring(address, 2, 6))
ShardKey(address) == Number(substring(address, 0, 4))

EntryMatches(obj, address) ==
    LET num == ShardKey(address)
        start == Number(<<"0", "x">> \o obj.byte[1])
        end == Number(<<"0", "x">> \o obj.byte[2])
    IN  Geq(num, start) /\ Leq(num, end)

getShardFromAddress(address) ==
    LET matching == { k \in DOMAIN ShardData : EntryMatches(ShardData[k], address) }
    IN  IF matching = {} THEN Null
        ELSE ShardData[CHOOSE k \in matching : \A j \in matching : k <= j].shard

(***************************************************************************)
(* The static shard table.  @quais/constants is not part of the sources:   *)
(* the table is an input fixed when the behaviour starts, drawn from the   *)
(* layout the specification shows (four hex digits per bound) and from a   *)
(* layout with one byte per bound.                                         *)
(***************************************************************************)
WideTable ==
    << [shard |-> "cyprus1", byte |-> << <<"0","0","0","0">>, <<"1","9","9","9">> >>],
       [shard |-> "cyprus2", byte |-> << <<"2","0","0","0">>, <<"3","9","9","9">> >>] >>
ByteTable ==
    << [shard |-> "cyprus1", byte |-> << <<"0","0">>, <<"1","D">> >>],
       [shard |-> "cyprus2", byte |-> << <<"1","E">>, <<"3","A">> >>] >>
ShardTables == {WideTable, ByteTable}

\* the digests of derivation preimages lead with one of these: 0x10 and 0x1e
\* fall in different entries of ByteTable, 0x99 in none
LeadBytes == {16, 30, 153}

(***************************************************************************)
(* SpecCreate2: one call of getCreate2Address.                             *)
(***************************************************************************)
HexData(n) == <<"0", "x">> \o Rep("f", 2 * n)
Create2Data ==
    { HexData(n) : n \in {0, Create2Bytes - 1, Create2Bytes, Create2Bytes + 1} }
    \cup { <<"0", "x">> \o Rep("f", 2 * Create2Bytes - 1),
           <<"0", "x">> \o Rep("g", 2 * Create2Bytes),
           Rep("f", 2 * Create2Bytes) }

FromInputs ==
    { <<"0", "x">> \o CaseVariant(SmallAddress, up, FALSE) :
        up \in SUBSET FirstLetters(SmallAddress, MaxVaried) }
    \cup { SmallAddress, Rep("0", AddressChars - 1) }

InitCreate2 ==
    /\ pc = "idle"
    /\ hashed \in IcapDigests
    /\ input \in FromInputs
    /\ salt32 \in Create2Data
    /\ initCodeHash \in Create2Data
    /\ keccakLead \in [{255} -> LeadBytes]
    /\ result = NoResult
    /\ icap = <<>>
    /\ ShardData = <<>>
    /\ nonce = <<>>
    /\ matchShard = Undefined
    /\ sendAddress = <<>>
    /\ bytecode = <<>>
    /\ salt = <<>>
    /\ contractBytes = <<>>
    /\ found = FALSE
    /\ shard = Undefined
    /\ draws = 0
    /\ hashes = 0
    /\ iters = 0
    /\ running = "none"
    /\ otherDone = 0

GetCreate2AddressCall ==
    /\ pc = "idle"
    /\ pc' = "getCreate2Address"
    /\ result' = getCreate2Address(input, salt32, initCodeHash)
    /\ icap' = icap
    /\ CodecFrame

NextCreate2 == GetCreate2AddressCall

SpecCreate2 == InitCreate2 /\ [][NextCreate2]_vars

\* the number of bytes a "0x" hex string holds, or NaN
ByteCount(data) ==
    IF Len(data) >= 2 /\ SubSeq(data, 1, 2) = <<"0", "x">> /\ Len(data) % 2 = 0
       /\ \A i \in 3..Len(data) : data[i] \in HexSet
    THEN (Len(data) \div 2) - 1 ELSE NaN

\* C8: getCreate2Address throws "salt must be 32 bytes" for every salt that is
\* not exactly 32 bytes, otherwise "initCodeHash must be 32 bytes" for every
\* initCodeHash that is not exactly 32 bytes; with both of 32 bytes it returns
\* an address when from is valid and the error of getAddress(from) otherwise:
\* the salt is checked first, then initCodeHash, then from.
C8_Create2LengthChecks ==
    pc = "getCreate2Address" =>
        IF ByteCount(salt32) # 32 THEN result = Throw("salt must be 32 bytes")
        ELSE IF ByteCount(initCodeHash) # 32
        THEN result = Throw("initCodeHash must be 32 bytes")
        ELSE IF ~isAddress(input) THEN ~result.ok /\ result = getAddress(input)
        ELSE /\ result.ok
             /\ isHexString(result.val, AddressBytes)
             /\ getAddress(result.val) = result

\* a 33-byte salt was rejected although from and initCodeHash are invalid
\* too, and a call with both of 32 bytes returned
C8_Witness_SaltCheckedFirst ==
    /\ pc = "getCreate2Address"
    /\ salt32 = HexData(Create2Bytes + 1)
    /\ initCodeHash = HexData(Create2Bytes - 1)
    /\ ~isAddress(input)
    /\ result = Throw("salt must be 32 bytes")

(***************************************************************************)
(* SpecShard: one call of getShardFromAddress or validShard.               *)
(***************************************************************************)
LeadDigits ==
    { <<"0","5","0","0">>, <<"0","0","0","0">>, <<"1","9","9","9">>, <<"2","0","0","0">>,
      <<"9","9","9","9">>, <<"1","a","0","0">>, <<"1","D","0","0">>, <<"1","E","f","f">>,
      <<"3","A","0","0">>, <<"3","b","0","0">>, <<"f","f","f","f">>, <<"6","5","5","4">>,
      <<"0","0","2","9">>, <<"0","0","3","0">> }

ShardInputs ==
    UNION { { <<"0", "x">> \o d \o Rep("0", AddressChars - 4), d \o Rep("0", AddressChars - 4) }
            : d \in LeadDigits }

ShardNames == {"cyprus1", "cyprus2", "cyprus3", Undefined}

InitShard ==
    /\ pc = "idle"
    /\ hashed \in IcapDigests
    /\ input \in ShardInputs
    /\ ShardData \in ShardTables
    /\ matchShard \in ShardNames
    /\ result = NoResult
    /\ icap = <<>>
    /\ salt32 = <<>>
    /\ initCodeHash = <<>>
    /\ nonce = <<>>
    /\ sendAddress = <<>>
    /\ bytecode = <<>>
    /\ salt = <<>>
    /\ contractBytes = <<>>
    /\ found = FALSE
    /\ shard = Undefined
    /\ keccakLead = <<>>
    /\ draws = 0
    /\ hashes = 0
    /\ iters = 0
    /\ running = "none"
    /\ otherDone = 0

GetShardFromAddressCall ==
    /\ pc = "idle"
    /\ pc' = "getShardFromAddress"
    /\ shard' = getShardFromAddress(input)
    /\ UNCHANGED <<input, hashed, result, icap, salt32, initCodeHash, ShardData, nonce,
                   matchShard, sendAddress, bytecode, salt, contractBytes, found,
                   keccakLead, draws, hashes, iters, running, otherDone>>

\* the caller resolves the canonical form getAddress returns
GetShardOfParsedCall ==
    /\ pc = "idle"
    /\ result' = getAddress(input)
    /\ result'.ok
    /\ pc' = "getShardOfParsed"
    /\ shard' = getShardFromAddress(result'.val)
    /\ UNCHANGED <<input, hashed, icap, salt32, initCodeHash, ShardData, nonce,
                   matchShard, sendAddress, bytecode, salt, contractBytes, found,
                   keccakLead, draws, hashes, iters, running, otherDone>>

ValidShardCall ==
    /\ pc = "idle"
    /\ pc' = "validShard"
    /\ result' = Ok(IF validShard(matchShard) THEN <<"true">> ELSE <<"false">>)
    /\ icap' = icap
    /\ CodecFrame

NextShard == GetShardFromAddressCall \/ GetShardOfParsedCall \/ ValidShardCall

SpecShard == InitShard /\ [][NextShard]_vars

\* the first four hex digits of an address, read as a decimal numeral
\* (NaN when one of them is a letter)
DecimalOfLeadDigits(address) ==
    LET d == SubSeq(Body(address), 1, 4)
    IN  IF \A i \in 1..4 : d[i] \in DigitSet
        THEN 1000 * HexVal(d[1]) + 100 * HexVal(d[2]) + 10 * HexVal(d[3]) + HexVal(d[4])
        ELSE NaN
\* the first byte of an address
LeadByte(address) ==
    LET d == Body(address) IN 16 * HexVal(d[1]) + HexVal(d[2])

\* the bounds of table entry k as hexadecimal numbers
LowerOf(k) == HexValue(ShardData[k].byte[1])
UpperOf(k) == HexValue(ShardData[k].byte[2])

\* the shard of the first entry whose interval holds the value v, or null
FirstShardHolding(v) ==
    IF v # NaN /\ \E k \in DOMAIN ShardData : LowerOf(k) <= v /\ v <= UpperOf(k)
    THEN ShardData[CHOOSE k \in DOMAIN ShardData :
                      /\ LowerOf(k) <= v /\ v <= UpperOf(k)
                      /\ \A j \in 1..(k - 1) : ~(LowerOf(j) <= v /\ v <= UpperOf(j))].shard
    ELSE Null

ToString16(byte) ==
    IF byte < 16 THEN <<DigitChar(byte)>>
    ELSE <<DigitChar(byte \div 16), DigitChar(byte % 16)>>

\* ('0' + (byte & 0xFF).toString(16)).slice(-2)
ByteToHexMutant(byte) == ToString16(byte)
ByteToHex(byte) ==
    LET padded == <<"0">> \o ToString16(byte)
    IN  SubSeq(padded, Len(padded) - 1, Len(padded))

RECURSIVE toHexString(_)
toHexString(byteArray) ==
    IF byteArray = <<>> THEN <<>>
    ELSE ByteToHex(Head(byteArray)) \o toHexString(Tail(byteArray))

\* parseInt of two characters (digits, letters), radix 16: a leading "0x" is
\* skipped, then the hex digits up to the first other character are read,
\* and NaN is the result when there is none
ParseHexPair(pair) ==
    IF pair = <<"0", "x">> \/ pair[1] \notin HexSet THEN NaN
    ELSE IF pair[2] \notin HexSet THEN HexVal(pair[1])
    ELSE 16 * HexVal(pair[1]) + HexVal(pair[2])

RECURSIVE toByteArray(_)
toByteArray(hexString) ==
    IF Len(hexString) >= 2
    THEN <<ParseHexPair(substring(hexString, 0, 2))>>
         \o toByteArray(substring(hexString, 2, Len(hexString)))
    ELSE <<>>

\* line 191: the bytecode without its last two characters, then the salt
InitCodeOf(code, saltBytes) ==
    substring(code, 0, Len(code) - 2) \o toHexString(saltBytes)

\* formatBytes32String(nonce.toString()): 32 bytes, the same in every
\* iteration of one call; only its length matters here
NonceBytes == Rep(0, Create2Bytes)

\* lines 195-199: the shard of the candidate address of the contract bytes
CandidateAddress(sender, bytes) ==
    getAddress(hexDataSlice(
        keccak256Bytes(HexToBytes(sender) \o NonceBytes \o bytes), SliceOffset))
CandidateShard(sender, bytes) ==
    getShardFromAddress(CandidateAddress(sender, bytes).val)

\* nonce == undefined: the nonce is a number or absent; 0 is a number
NonceIsMissingMutant(n) == n = <<>> \/ n = <<0>>
NonceIsMissing(n) == n = <<>>

\* lines 200-205: the loop ends on a candidate whose shard is the target
ShardMatchesAnyShard(sh, target) == sh # Null
ShardMatchesInverted(sh, target) == sh # Null /\ sh # target
ShardMatches(sh, target) == sh # Null /\ sh = target

Bump(counter) == IF counter < MaxCount THEN counter + 1 ELSE counter

GrindFrame ==
    UNCHANGED <<input, hashed, icap, salt32, initCodeHash, ShardData, nonce, matchShard,
                sendAddress, bytecode, keccakLead>>

\* The call: an async function runs in the caller's job up to its first
\* await, and this one has none.  Lines 176-186.
GrindCall ==
    /\ pc = "idle"
    /\ running = "none"
    /\ IF NonceIsMissing(nonce)
       THEN /\ result' = Throw("missing nonce")
            /\ pc' = "rejected"
            /\ running' = "none"
       ELSE IF matchShard = Undefined \/ ~validShard(matchShard)
       THEN /\ result' = Throw("missing matchShard")
            /\ pc' = "rejected"
            /\ running' = "none"
       ELSE /\ result' = result
            /\ pc' = "searching"
            /\ running' = "grind"
    /\ found' = FALSE
    /\ UNCHANGED <<salt, contractBytes, shard, draws, hashes, iters, otherDone>>
    /\ GrindFrame

\* One pass of the while loop with the random byte s.  Lines 188-206.
Iterate(s) ==
    LET drawn == <<s>>
        bytes == toByteArray(InitCodeOf(bytecode, drawn))
        candidate == CandidateShard(sendAddress, bytes)
    IN  /\ pc = "searching"
        /\ ~found
        /\ salt' = drawn
        /\ draws' = Bump(draws)
        /\ iters' = Bump(iters)
        /\ contractBytes' = bytes
        /\ IF ~IsArrayifiable(sendAddress) \/ ~IsBytes(bytes)
           THEN /\ result' = Throw("invalid arrayify value")
                /\ pc' = "threw"
                /\ running' = "none"
                /\ UNCHANGED <<shard, found, hashes>>
           ELSE /\ hashes' = Bump(hashes)
                /\ shard' = candidate
                /\ found' = ShardMatches(candidate, matchShard)
                /\ UNCHANGED <<result, pc, running>>
        /\ otherDone' = otherDone
        /\ GrindFrame

\* Line 208, after the loop ended.
GrindReturn ==
    /\ pc = "searching"
    /\ found
    /\ result' = Ok(toHexString(contractBytes))
    /\ pc' = "found"
    /\ running' = "none"
    /\ UNCHANGED <<salt, contractBytes, found, shard, draws, hashes, iters, otherDone>>
    /\ GrindFrame

\* Another pending task of the caller's event loop takes a step: the loop
\* starts a job only when no job is running.
OtherTaskStep ==
    /\ running = "none"
    /\ otherDone = 0
    /\ otherDone' = 1
    /\ UNCHANGED <<pc, result, salt, contractBytes, found, shard, draws, hashes, iters,
                   running>>
    /\ GrindFrame

(***************************************************************************)
(* SpecGrind: one call of grindContractAddress beside another task.        *)
(***************************************************************************)
\* random bytes the model draws, and the bytecode's characters
SaltBytes == {15, 240}
CodeChars == {"0", "f"}
RECURSIVE Codes(_)
Codes(n) ==
    IF n = 0 THEN { <<>> }
    ELSE Codes(n - 1) \cup { Append(c, x) : c \in { d \in Codes(n - 1) : Len(d) = n - 1 },
                                            x \in CodeChars }

\* a bytecode written with the "0x" prefix
PrefixedCode == <<"0", "x", "0", "0">>

Senders == { <<"0", "x">> \o SmallAddress, SmallAddress }

\* the last bytes of the preimages a call with this bytecode can hash
LastBytes(code) ==
    { LET bytes == toByteArray(InitCodeOf(code, <<s>>)) IN bytes[Len(bytes)] : s \in SaltBytes }

InitGrind ==
    /\ pc = "idle"
    /\ hashed = [i \in 1..DigestLen |-> 136]
    /\ input = <<>>
    /\ result = NoResult
    /\ icap = <<>>
    /\ salt32 = <<>>
    /\ initCodeHash = <<>>
    /\ ShardData \in ShardTables
    /\ nonce \in {<<>>, <<0>>}
    /\ matchShard \in ShardNames
    /\ sendAddress \in Senders
    /\ bytecode \in Codes(MaxCodeLen) \cup {PrefixedCode}
    /\ keccakLead \in [LastBytes(bytecode) -> LeadBytes]
    /\ salt = <<>>
    /\ contractBytes = <<>>
    /\ found = FALSE
    /\ shard = Undefined
    /\ draws = 0
    /\ hashes = 0
    /\ iters = 0
    /\ running = "none"
    /\ otherDone = 0

NextGrind ==
    \/ GrindCall
    \/ \E s \in SaltBytes : Iterate(s)
    \/ GrindReturn
    \/ OtherTaskStep

SpecGrind == InitGrind /\ [][NextGrind]_vars

\* SpecGrindFair: the call alone, under a random source that draws every
\* byte value again and again; a call that can take its next step takes it.
InitGrindFair == InitGrind

NextGrindFair ==
    \/ GrindCall
    \/ \E s \in SaltBytes : Iterate(s)
    \/ GrindReturn

\* the loop is about to draw: line 188's condition holds
Searching == pc = "searching" /\ ~found

\* Weak fairness of the draw of s, with the loop's own condition as the
\* enabling condition: while the loop keeps running, s is drawn again.
FairDraw(s) == []<>(~Searching) \/ []<><<Iterate(s)>>_vars

SpecGrindFair ==
    /\ InitGrindFair
    /\ [][NextGrindFair]_vars
    /\ WF_vars(GrindCall)
    /\ WF_vars(GrindReturn)
    /\ \A s \in SaltBytes : FairDraw(s)

\* the bytes a string of hex digits writes, two digits per byte
RefBytes(hex) ==
    [k \in 1..(Len(hex) \div 2) |-> 16 * HexVal(hex[2 * k - 1]) + HexVal(hex[2 * k])]

TableNames == { ShardData[k].shard : k \in DOMAIN ShardData }

\* the returned init code is the bytecode with only its last byte replaced
\* by the salt of the final iteration
ReturnedIsBytecodeWithSalt ==
    LET ret == result.val
        n == Len(bytecode)
    IN  /\ Len(ret) = n
        /\ n >= 2
        /\ \A i \in 1..(n - 2) : HexVal(ret[i]) = HexVal(bytecode[i])
        /\ 16 * HexVal(ret[n - 1]) + HexVal(ret[n]) = salt[1]

\* the loop ended on a candidate of the target shard, and that candidate is
\* the address of the returned init code
ReturnedCandidateIsInTarget ==
    /\ found
    /\ shard = matchShard
    /\ shard \in TableNames
    /\ CandidateShard(sendAddress, RefBytes(result.val)) = matchShard

C10_ValidatesBeforeSearching ==
    /\ pc = "rejected" =>
         /\ draws = 0 /\ hashes = 0 /\ iters = 0 /\ salt = <<>>
         /\ IF nonce = <<>> THEN result = Throw("missing nonce")
            ELSE /\ result = Throw("missing matchShard")
                 /\ matchShard \notin TableNames
    /\ pc \in {"searching", "found", "threw"} =>
         /\ nonce # <<>>
         /\ matchShard # Undefined
         /\ matchShard \in TableNames
         /\ draws = iters
         /\ hashes <= draws
    /\ (nonce = <<>> \/ matchShard \notin TableNames) => pc \in {"idle", "rejected"}

\* a call with nonce 0 is past validation and has drawn twice
C10_Witness_NonceZeroSearching ==
    /\ pc = "searching"
    /\ nonce = <<0>>
    /\ draws = 2
    /\ iters = 2

\* C6 as stated: while a call is searching, another pending task of the
\* caller's event loop can take a step.
C6_OtherTaskStepsWhileSearching ==
    (pc = "searching" /\ otherDone = 0) => ENABLED OtherTaskStep

\* the salt bytes whose candidate resolves to the target shard
GoodSalts ==
    { s \in SaltBytes :
        CandidateShard(sendAddress, toByteArray(InitCodeOf(bytecode, <<s>>))) = matchShard }

====
